---- MODULE Spec2Model ----
\* Stock dashboard (src/app.py): a Streamlit script that is re-run top to bottom
\* on every user interaction ("render pass").  Each pass calls the memoized news
\* scraper for the sidebar and, when the analyze button was pressed with a
\* non-empty ticker, the memoized market-data fetcher followed by the cleaning,
\* metrics, chart and table stages.
EXTENDS Integers, Sequences, FiniteSets, TLC

VARIABLES
    now,        \* wall clock, in seconds
    stockCache, \* memo of get_stock_data: key -> NoEntry or [t, val, msgs]
    newsCache,  \* memo of scrape_market_news (single key: the default url)
    stockCalls, \* history: key -> times at which yf.download was called
    newsCalls,  \* history: times at which requests.get was called
    feed,       \* the provider's answer to yf.download, where Init fixes it
    site,       \* the news site's answer to requests.get, where Init fixes it
    pass        \* what the most recent render pass did and displayed

vars == <<now, stockCache, newsCache, stockCalls, newsCalls, feed, site, pass>>

-----------------------------------------------------------------------------
\* Bounds of the model and constants of the program.

ttl == 3600
StoryLimit == 10
TickStep == 1800
MaxTicks == 2
MaxRows == 3
MaxBlocks == 15

-----------------------------------------------------------------------------
\* Values.  A cell of the provider's table is a float (num), a missing value
\* (nan), a string spelling a number (str) or any other string (junk).

Num(n) == [k |-> "num", v |-> n]
NaN == [k |-> "nan", v |-> 0]
StrNum(n) == [k |-> "str", v |-> n]
Junk == [k |-> "junk", v |-> 0]
PosInf == [k |-> "inf", v |-> 1]
NegInf == [k |-> "inf", v |-> -1]
Ratio(n, d) == [k |-> "rat", v |-> <<n, d>>]

\* the value None, shaped like a table so that the two compare
None == [k |-> "None", multi |-> FALSE, ntick |-> 0, rows |-> <<>>]
\* an absent memo entry
NoEntry == [k |-> "NoEntry", t |-> 0, val |-> None, msgs |-> <<>>]

PriceCols == <<"Open", "High", "Low", "Close">>
NumericCols == <<"Open", "High", "Low", "Close", "Volume">>

IsNa(c) == c.k = "nan"

\* pd.to_numeric(..., errors='coerce') on one cell
ToNumeric(c) ==
    CASE c.k = "num" -> c
      [] c.k = "str" -> Num(c.v)
      [] OTHER -> NaN

\* a - b on floats
FSub(a, b) == IF IsNa(a) \/ IsNa(b) THEN NaN ELSE Num(a.v - b.v)

\* (a / b) * 100 on floats; numpy division by zero yields inf or nan, no exception
FPercent(a, b) ==
    IF IsNa(a) \/ IsNa(b) THEN NaN
    ELSE IF b.v = 0
         THEN (IF a.v = 0 THEN NaN ELSE IF a.v > 0 THEN PosInf ELSE NegInf)
         ELSE Ratio(a.v * 100, b.v)

\* n / d rounded to the nearest integer, ties to even (d # 0)
RoundHalfEven(n, d) ==
    LET nn == IF d < 0 THEN -n ELSE n
        dd == IF d < 0 THEN -d ELSE d
        q == nn \div dd
        r == nn - q * dd
    IN IF 2 * r < dd THEN q
       ELSE IF 2 * r > dd THEN q + 1
       ELSE IF q % 2 = 0 THEN q ELSE q + 1

\* f"{x:,.2f}" / f"{x:.2f}": the text of a float with two decimals, kept as the
\* number of hundredths it spells, or the text nan / inf / -inf
Fmt2(x) ==
    CASE x.k = "num" -> [txt |-> "num", c |-> x.v * 100]
      [] x.k = "rat" -> [txt |-> "num", c |-> RoundHalfEven(x.v[1] * 100, x.v[2])]
      [] x.k = "inf" -> [txt |-> IF x.v > 0 THEN "inf" ELSE "-inf", c |-> 0]
      [] OTHER -> [txt |-> "nan", c |-> 0]

NotAvailable == [txt |-> "N/A", c |-> 0]
Unset == [txt |-> "unset", c |-> 0]

-----------------------------------------------------------------------------
\* Sequence helpers.

RECURSIVE SelectRows(_, _, _)
\* rows of s, in order, whose index satisfies keep (a boolean function on 1..Len(s))
SelectRows(s, keep, i) ==
    IF i > Len(s) THEN <<>>
    ELSE (IF keep[i] THEN <<s[i]>> ELSE <<>>) \o SelectRows(s, keep, i + 1)

FirstN(s, n) == IF Len(s) <= n THEN s ELSE SubSeq(s, 1, n)

RECURSIVE FoldMax(_, _, _)
\* Series.max(): the largest non-missing value from index i on, acc so far
FoldMax(col, i, acc) ==
    IF i > Len(col) THEN acc
    ELSE IF IsNa(col[i]) THEN FoldMax(col, i + 1, acc)
    ELSE IF IsNa(acc) \/ col[i].v > acc.v THEN FoldMax(col, i + 1, col[i])
    ELSE FoldMax(col, i + 1, acc)

RECURSIVE FoldMin(_, _, _)
\* Series.min(): the smallest non-missing value
FoldMin(col, i, acc) ==
    IF i > Len(col) THEN acc
    ELSE IF IsNa(col[i]) THEN FoldMin(col, i + 1, acc)
    ELSE IF IsNa(acc) \/ col[i].v < acc.v THEN FoldMin(col, i + 1, col[i])
    ELSE FoldMin(col, i + 1, acc)

Column(rows, name) == [i \in 1..Len(rows) |-> rows[i][name]]

-----------------------------------------------------------------------------
\* The ticker text box: st.text_input(...).upper()

Upper(typed) ==
    CASE typed = "abc" -> "ABC"
      [] typed = "abc xyz" -> "ABC XYZ"
      [] OTHER -> typed

-----------------------------------------------------------------------------
\* Market data provider and get_stock_data.

\* yf.download takes a whitespace separated list of symbols
NumTickers(ticker) ==
    CASE ticker = "" -> 0
      [] ticker = "ABC XYZ" -> 2
      [] OTHER -> 1

\* yf.download(ticker, start, end) when the provider answers f: an exception, or
\* a table whose column labels have two levels (field, symbol) whenever several
\* symbols were asked for, and possibly also for one symbol
Download(ticker, f) ==
    IF f.kind = "raise"
    THEN [raised |-> TRUE, frame |-> None]
    ELSE [raised |-> FALSE,
          frame |-> [k |-> "frame",
                     multi |-> f.multi \/ NumTickers(ticker) > 1,
                     ntick |-> NumTickers(ticker),
                     rows |-> f.rows]]

\* body of get_stock_data: what it returns, what it displays, whether it raises
FetchBody_NoReport(ticker, f) ==
    LET d == Download(ticker, f)
    IN IF d.raised THEN [ret |-> None, msgs |-> <<>>, raised |-> FALSE]
       ELSE IF Len(d.frame.rows) = 0
            THEN [ret |-> None, msgs |-> <<"warn_no_data">>, raised |-> FALSE]
            ELSE [ret |-> d.frame, msgs |-> <<>>, raised |-> FALSE]

FetchBody(ticker, f) ==
    LET d == Download(ticker, f)
    IN IF d.raised
       THEN [ret |-> None, msgs |-> <<"err_fetch">>, raised |-> FALSE]
       ELSE IF Len(d.frame.rows) = 0
            THEN [ret |-> None, msgs |-> <<"warn_no_data">>, raised |-> FALSE]
            ELSE [ret |-> d.frame, msgs |-> <<>>, raised |-> FALSE]

-----------------------------------------------------------------------------
\* News site and scrape_market_news.

BaseUrl == "https://economictimes.indiatimes.com"

\* h3.get_text(strip=True): the text without its surrounding whitespace
GetTextStrip(text) == text.core

\* the condition of the if in the loop: Tag objects are truthy even when empty
BlockComplete(b) == b.h3 /\ b.a /\ b.href

NewsItem(b) == [headline |-> GetTextStrip(b.text), link |-> BaseUrl \o b.url]

\* the loop over the stories found
ParseStories(stories) ==
    LET keep == [i \in 1..Len(stories) |-> BlockComplete(stories[i])]
        kept == SelectRows(stories, keep, 1)
    IN [i \in 1..Len(kept) |-> NewsItem(kept[i])]

\* soup.find_all('div', class_='eachStory', limit=10) followed by the loop
ScrapePage_FilterThenLimit(blocks) == FirstN(ParseStories(blocks), StoryLimit)

ScrapePage(blocks) == ParseStories(FirstN(blocks, StoryLimit))

\* a Python list of news items
NewsList(items) == [k |-> "list", items |-> items]

\* body of scrape_market_news when the site answers s: requests.get raises
\* (conn_error), raise_for_status raises on a non-2xx status (http_error), the
\* parse raises something else (bad_content), or the page is parsed
ScrapeBody_NoCatchAll(s) ==
    CASE s.kind \in {"conn_error", "http_error"} ->
            [ret |-> NewsList(<<>>), msgs |-> <<"err_news_request">>, raised |-> FALSE]
      [] s.kind = "bad_content" ->
            [ret |-> NewsList(<<>>), msgs |-> <<>>, raised |-> TRUE]
      [] OTHER ->
            [ret |-> NewsList(ScrapePage(s.blocks)), msgs |-> <<>>, raised |-> FALSE]

ScrapeBody(s) ==
    CASE s.kind \in {"conn_error", "http_error"} ->
            [ret |-> NewsList(<<>>), msgs |-> <<"err_news_request">>, raised |-> FALSE]
      [] s.kind = "bad_content" ->
            [ret |-> NewsList(<<>>), msgs |-> <<"err_news_other">>, raised |-> FALSE]
      [] OTHER ->
            [ret |-> NewsList(ScrapePage(s.blocks)), msgs |-> <<>>, raised |-> FALSE]

-----------------------------------------------------------------------------
\* @st.cache_data(ttl=3600): results are stored per argument tuple together with
\* the elements the body displayed, and served (elements replayed) while younger
\* than ttl.

CacheFresh_ShortTtl(entry, t) == entry.k = "entry" /\ t - entry.t < 60

CacheFresh(entry, t) == entry.k = "entry" /\ t - entry.t < ttl

CacheStore_SuccessOnly(entry, body, t) ==
    IF body.raised \/ body.ret.k = "None"
       \/ (body.ret.k = "list" /\ body.ret.items = <<>>) THEN entry
    ELSE [k |-> "entry", t |-> t, val |-> body.ret, msgs |-> body.msgs]

\* a body that raises stores nothing; any returned value, None included, is stored
CacheStore(entry, body, t) ==
    IF body.raised THEN entry
    ELSE [k |-> "entry", t |-> t, val |-> body.ret, msgs |-> body.msgs]

\* one call of a memoized function at time t
Memo(entry, t, body) ==
    IF CacheFresh(entry, t)
    THEN [ret |-> entry.val, msgs |-> entry.msgs, executed |-> FALSE,
          raised |-> FALSE, entry |-> entry]
    ELSE [ret |-> body.ret, msgs |-> body.msgs, executed |-> TRUE,
          raised |-> body.raised, entry |-> CacheStore(entry, body, t)]

-----------------------------------------------------------------------------
\* Data cleaning (the caller of get_stock_data).

\* data.columns.get_level_values(0): with several symbols every field label
\* occurs once per symbol, so data[col] is a table and not a column
DuplicateLabels(frame) == frame.multi /\ frame.ntick > 1

CoerceRow(r) ==
    [date |-> r.date, Open |-> ToNumeric(r.Open), High |-> ToNumeric(r.High),
     Low |-> ToNumeric(r.Low), Close |-> ToNumeric(r.Close),
     Volume |-> ToNumeric(r.Volume)]

\* the loop over numeric_cols
Coerce(rows) == [i \in 1..Len(rows) |-> CoerceRow(rows[i])]

AllPricesNa(r) == \A j \in 1..Len(PriceCols) : IsNa(r[PriceCols[j]])

\* data.dropna(subset=['Open', 'High', 'Low', 'Close'], how='all')
DropNa(rows) ==
    SelectRows(rows, [i \in 1..Len(rows) |-> ~AllPricesNa(rows[i])], 1)

Clean_DropFirst(rows) == Coerce(DropNa(rows))

Clean(rows) == DropNa(Coerce(rows))

\* the cleaning stage: pd.to_numeric raises TypeError on a table
CleanStage(frame) ==
    IF DuplicateLabels(frame)
    THEN [raised |-> TRUE, rows |-> <<>>]
    ELSE [raised |-> FALSE, rows |-> Clean(frame.rows)]

-----------------------------------------------------------------------------
\* Key metrics.

NoMetrics == [last |-> Unset, change |-> Unset, pct |-> Unset,
              high |-> Unset, low |-> Unset]

ChangeMetric_AlwaysCompute(close) ==
    IF Len(close) < 2
    THEN [raised |-> TRUE, change |-> Unset, pct |-> Unset]
    ELSE LET latest == close[Len(close)]
             prev == close[Len(close) - 1]
             price_change == FSub(latest, prev)
         IN [raised |-> FALSE, change |-> Fmt2(price_change),
             pct |-> Fmt2(FPercent(price_change, prev))]

\* the if len(data['Close']) > 1 / else of the metrics block; iloc[-2] raises
\* IndexError on a shorter column
ChangeMetric(close) ==
    IF Len(close) > 1
    THEN LET latest == close[Len(close)]
             prev == close[Len(close) - 1]
             price_change == FSub(latest, prev)
         IN [raised |-> FALSE, change |-> Fmt2(price_change),
             pct |-> Fmt2(FPercent(price_change, prev))]
    ELSE [raised |-> FALSE, change |-> NotAvailable, pct |-> NotAvailable]

PeriodHigh_FromClose(data) == Fmt2(FoldMax(Column(data, "Close"), 1, NaN))

PeriodHigh(data) == Fmt2(FoldMax(Column(data, "High"), 1, NaN))

PeriodLow(data) == Fmt2(FoldMin(Column(data, "Low"), 1, NaN))

\* the try block: metrics displayed so far, and the handler's error when one of
\* IndexError, TypeError, ValueError was raised
MetricsBlock(data) ==
    LET close == Column(data, "Close")
    IN IF Len(close) = 0
       THEN [ui |-> <<"err_metrics">>, vals |-> NoMetrics, err |-> TRUE]
       ELSE LET last == Fmt2(close[Len(close)])
                ch == ChangeMetric(close)
            IN IF ch.raised
               THEN [ui |-> <<"metric_last", "err_metrics">>,
                     vals |-> [NoMetrics EXCEPT !.last = last], err |-> TRUE]
               ELSE [ui |-> <<"metric_last", "metric_change", "metric_high",
                              "metric_low">>,
                     vals |-> [last |-> last, change |-> ch.change, pct |-> ch.pct,
                               high |-> PeriodHigh(data), low |-> PeriodLow(data)],
                     err |-> FALSE]

-----------------------------------------------------------------------------
\* Inputs: what the user types and picks, what the provider and the site answer.

Ranges == {<<1, 2>>, <<1, 3>>}
AllTyped == {"", "abc", "abc xyz"}
Keys == {<<Upper(ty), r[1], r[2]>> : ty \in AllTyped \ {""}, r \in Ranges}

Cells(open, high, low, close, volume) ==
    [Open |-> open, High |-> high, Low |-> low, Close |-> close, Volume |-> volume]

\* the rows a provider table is built from
RowKinds ==
    { Cells(Num(100), Num(110), Num(90), Num(100), Num(5000)),
      Cells(StrNum(100), Num(120), Num(98), StrNum(105), StrNum(7000)),
      Cells(Num(105), Num(106), Num(80), Num(95), Num(6000)),
      Cells(Num(95), Num(96), Num(0), Num(0), Num(0)),
      Cells(NaN, NaN, NaN, NaN, NaN),
      Cells(Junk, Junk, Junk, Junk, Num(10)),
      Cells(NaN, NaN, Num(90), NaN, Junk) }

\* a table: rows in strictly increasing date order
TableOf(kinds) ==
    [i \in 1..Len(kinds) |->
        [date |-> i, Open |-> kinds[i].Open, High |-> kinds[i].High,
         Low |-> kinds[i].Low, Close |-> kinds[i].Close, Volume |-> kinds[i].Volume]]

Feed(kind, multi, rows) == [kind |-> kind, multi |-> multi, rows |-> rows]

ExampleRows ==
    TableOf(<<Cells(Num(100), Num(110), Num(90), Num(100), Num(5000)),
              Cells(Num(100), Num(120), Num(98), Num(105), Num(7000)),
              Cells(Num(105), Num(106), Num(80), Num(95), Num(6000))>>)

SmallFeeds ==
    { Feed("raise", FALSE, <<>>), Feed("table", FALSE, <<>>),
      Feed("table", TRUE, ExampleRows) }

BigFeeds ==
    { Feed("raise", FALSE, <<>>) } \cup
    { Feed("table", m, TableOf(ks)) :
        m \in BOOLEAN, ks \in UNION { [1..n -> RowKinds] : n \in 0..MaxRows } }

\* one div.eachStory block, the i-th of its page
Block(kind, i) ==
    [h3 |-> kind # "noh3",
     text |-> [pad |-> TRUE,
               core |-> IF kind \in {"noh3", "emptyh3"} THEN ""
                        ELSE "Story " \o ToString(i)],
     a |-> kind # "nolink",
     href |-> kind \notin {"nolink", "nohref"},
     url |-> IF kind \in {"nolink", "nohref"} THEN "" ELSE "/news/" \o ToString(i)]

Defects == {"nolink", "nohref", "noh3", "emptyh3"}

\* a page of n blocks, complete except at positions p and q (0: nowhere)
Page(n, p, kp, q, kq) ==
    [i \in 1..n |-> Block(IF i = p THEN kp ELSE IF i = q THEN kq ELSE "ok", i)]

Site(kind, blocks) == [kind |-> kind, blocks |-> blocks]

SiteErrors == { Site(k, <<>>) : k \in {"conn_error", "http_error", "bad_content"} }

SmallSites ==
    { Site("conn_error", <<>>), Site("page", Page(2, 1, "nolink", 0, "nolink")) }

BigSites ==
    SiteErrors \cup
    { Site("page", Page(n, p, kp, q, kq)) :
        n \in 0..MaxBlocks, p \in 0..MaxBlocks, q \in 0..MaxBlocks,
        kp \in Defects, kq \in Defects }

-----------------------------------------------------------------------------
\* The render pass.

\* data.sort_index(ascending=False): rows by decreasing date
SortDesc(rows) ==
    LET R == {rows[i] : i \in 1..Len(rows)}
    IN [i \in 1..Len(rows) |->
          CHOOSE r \in R : Cardinality({q \in R : q.date > r.date}) = i - 1]

NoPass ==
    [phase |-> "none", t |-> 0, button |-> FALSE, ticker |-> "", key |-> <<"", 0, 0>>,
     newsExecuted |-> FALSE, newsRet |-> NewsList(<<>>),
     fetchCalled |-> FALSE, fetchExecuted |-> FALSE, fetchRet |-> None,
     ui |-> <<>>, cleaned |-> <<>>, cleanedOk |-> FALSE,
     metrics |-> NoMetrics, metricsErr |-> FALSE, table |-> <<>>, csv |-> <<>>,
     aborted |-> FALSE]

\* lines 94-194: what the main column shows for the value get_stock_data returned
MainColumn(data) ==
    IF data.k # "None" /\ Len(data.rows) > 0
    THEN LET cs == CleanStage(data)
         IN IF cs.raised
            THEN [ui |-> <<"exception">>, aborted |-> TRUE, cleanedOk |-> FALSE,
                  cleaned |-> <<>>, metrics |-> NoMetrics, metricsErr |-> FALSE,
                  table |-> <<>>, csv |-> <<>>]
            ELSE IF Len(cs.rows) > 0
            THEN LET mb == MetricsBlock(cs.rows)
                 IN [ui |-> mb.ui \o <<"candlestick", "volume_chart", "table", "csv">>,
                     aborted |-> FALSE, cleanedOk |-> TRUE, cleaned |-> cs.rows,
                     metrics |-> mb.vals, metricsErr |-> mb.err,
                     table |-> SortDesc(cs.rows), csv |-> cs.rows]
            ELSE [ui |-> <<"err_no_valid_data">>, aborted |-> FALSE,
                  cleanedOk |-> TRUE, cleaned |-> cs.rows, metrics |-> NoMetrics,
                  metricsErr |-> FALSE, table |-> <<>>, csv |-> <<>>]
    ELSE [ui |-> <<"err_could_not_retrieve">>, aborted |-> FALSE, cleanedOk |-> FALSE,
          cleaned |-> <<>>, metrics |-> NoMetrics, metricsErr |-> FALSE,
          table |-> <<>>, csv |-> <<>>]

\* lines 76-84: the news panel for the list scrape_market_news returned
NewsPanel(news) ==
    IF Len(news.items) > 0 THEN <<"news_items">> ELSE <<"warn_news_unavailable">>

\* One run of the script: the user typed `typed`, picked the dates of `range`
\* and did or did not press the button; the provider would answer f and the news
\* site s to a request made during this run.
Pass(typed, range, button, f, s) ==
    LET ticker == Upper(typed)
        key == <<ticker, range[1], range[2]>>
        nw == Memo(newsCache, now, ScrapeBody(s))
        base == [NoPass EXCEPT !.phase = "done", !.t = now, !.button = button,
                               !.ticker = ticker, !.key = key,
                               !.newsExecuted = nw.executed]
    IN /\ newsCache' = nw.entry
       /\ newsCalls' = IF nw.executed
                       THEN Append(newsCalls, [t |-> now, ret |-> nw.ret])
                       ELSE newsCalls
       /\ UNCHANGED now
       /\ IF nw.raised
          THEN /\ pass' = [base EXCEPT !.ui = <<"exception">>, !.aborted = TRUE]
               /\ UNCHANGED <<stockCache, stockCalls>>
          ELSE LET side == [base EXCEPT !.newsRet = nw.ret,
                                        !.ui = nw.msgs \o NewsPanel(nw.ret)]
               IN IF button /\ ticker # ""
                  THEN LET ft == Memo(stockCache[key], now, FetchBody(ticker, f))
                           mc == MainColumn(ft.ret)
                       IN /\ stockCache' = [stockCache EXCEPT ![key] = ft.entry]
                          /\ stockCalls' =
                               IF ft.executed
                               THEN [stockCalls EXCEPT
                                       ![key] = Append(@, [t |-> now, ret |-> ft.ret])]
                               ELSE stockCalls
                          /\ pass' =
                               IF ft.raised
                               THEN [side EXCEPT !.fetchCalled = TRUE,
                                                 !.fetchExecuted = ft.executed,
                                                 !.ui = @ \o <<"exception">>,
                                                 !.aborted = TRUE]
                               ELSE [side EXCEPT !.fetchCalled = TRUE,
                                                 !.fetchExecuted = ft.executed,
                                                 !.fetchRet = ft.ret,
                                                 !.ui = @ \o ft.msgs \o mc.ui,
                                                 !.aborted = mc.aborted,
                                                 !.cleanedOk = mc.cleanedOk,
                                                 !.cleaned = mc.cleaned,
                                                 !.metrics = mc.metrics,
                                                 !.metricsErr = mc.metricsErr,
                                                 !.table = mc.table,
                                                 !.csv = mc.csv]
                  ELSE /\ pass' = [side EXCEPT !.ui = @ \o <<"info_prompt">>]
                       /\ UNCHANGED <<stockCache, stockCalls>>

Init ==
    /\ now = 0
    /\ stockCache = [key \in Keys |-> NoEntry]
    /\ newsCache = NoEntry
    /\ stockCalls = [key \in Keys |-> <<>>]
    /\ newsCalls = <<>>
    /\ feed = Feed("table", FALSE, <<>>)
    /\ site = Site("page", <<>>)
    /\ pass = NoPass

\* the user presses Analyze Stock, which re-runs the script; the provider and
\* the news site answer f and s if they are asked during the run
RenderPass ==
    \E typed \in {"abc"}, range \in Ranges, f \in SmallFeeds, s \in SmallSites :
        Pass(typed, range, TRUE, f, s) /\ UNCHANGED <<feed, site>>

\* time passes
Tick ==
    /\ now < MaxTicks * TickStep
    /\ now' = now + TickStep
    /\ UNCHANGED <<stockCache, newsCache, stockCalls, newsCalls, feed, site, pass>>

Next == RenderPass \/ Tick

Spec == Init /\ [][Next]_vars

\* The cleaning and metrics stages over every provider table of the bounds:
\* Init fixes the provider's answer, the passes fetch it for one or two symbols.
InitFrames ==
    /\ Init!1 /\ Init!2 /\ Init!3 /\ Init!4 /\ Init!5 /\ Init!7 /\ Init!8
    /\ feed \in BigFeeds

RenderFeed ==
    \E typed \in {"abc", "abc xyz"} :
        Pass(typed, <<1, 2>>, TRUE, feed, site) /\ UNCHANGED <<feed, site>>

NextFrames == RenderFeed

SpecFrames == InitFrames /\ [][NextFrames]_vars

\* The scraper over every page of the bounds: Init fixes the site's answer, the
\* passes are made with and without the button and the ticker.
InitScrape ==
    /\ Init!1 /\ Init!2 /\ Init!3 /\ Init!4 /\ Init!5 /\ Init!6 /\ Init!8
    /\ site \in BigSites

RenderSite ==
    \E typed \in {"", "abc"}, button \in BOOLEAN :
        Pass(typed, <<1, 2>>, button, feed, site) /\ UNCHANGED <<feed, site>>

NextScrape == RenderSite

SpecScrape == InitScrape /\ [][NextScrape]_vars

-----------------------------------------------------------------------------
\* Properties.

Shown(tag) == \E i \in 1..Len(pass.ui) : pass.ui[i] = tag
TimesShown(tag) == Cardinality({i \in 1..Len(pass.ui) : pass.ui[i] = tag})
Done == pass.phase = "done"
Abs(x) == IF x < 0 THEN -x ELSE x
LastOf(log) == log[Len(log)]
MainOutput == {"metric_last", "metric_change", "metric_high", "metric_low",
               "candlestick", "volume_chart", "table", "csv"}
ShowsNoMainOutput == \A tag \in MainOutput : ~Shown(tag)

\* C1: for every key (ticker, start, end), two provider calls are never less
\* than ttl seconds apart, and every call of get_stock_data returns the result
\* of the latest execution for its key, which is less than ttl seconds old; the
\* provider is called in a pass only when that execution is the pass's own.
C1_NoRefetchWithinTtl ==
    /\ \A key \in Keys : \A i, j \in 1..Len(stockCalls[key]) :
          i < j => stockCalls[key][j].t - stockCalls[key][i].t >= ttl
    /\ (Done /\ pass.fetchCalled) =>
          LET log == stockCalls[pass.key]
          IN /\ Len(log) > 0
             /\ pass.t - LastOf(log).t < ttl
             /\ pass.fetchRet = LastOf(log).ret
             /\ pass.fetchExecuted => LastOf(log).t = pass.t

\* a call served from the memo, made later than the execution that filled it
C1_Witness ==
    /\ Done /\ pass.fetchCalled /\ ~pass.fetchExecuted
    /\ pass.t > LastOf(stockCalls[pass.key]).t
    /\ pass.fetchRet.k = "frame"

\* C2: every series that reaches the metrics, charts, table or CSV export has a
\* number in at least one of Open, High, Low, Close in each of its rows.
C2_NoAllNullRow ==
    (Done /\ ~ShowsNoMainOutput) =>
        /\ pass.cleanedOk
        /\ \A series \in {pass.cleaned, pass.table, pass.csv} :
             \A i \in 1..Len(series) :
                \E j \in 1..Len(PriceCols) : series[i][PriceCols[j]].k = "num"

\* a displayed series from which the cleaning removed a row
C2_Witness ==
    /\ Done /\ Shown("table")
    /\ Len(pass.cleaned) > 0 /\ Len(pass.cleaned) < Len(feed.rows)

\* C3: with a cleaned series of exactly one row the Change metric shows N/A for
\* the change and for the percent change and no error is raised or displayed;
\* with more rows it shows a computed value.
C3_OneRowChangeNotAvailable ==
    (Done /\ pass.cleanedOk /\ Len(pass.cleaned) > 0) =>
        /\ Len(pass.cleaned) = 1 =>
              /\ pass.metrics.change = NotAvailable
              /\ pass.metrics.pct = NotAvailable
              /\ Shown("metric_change")
              /\ ~pass.metricsErr /\ ~Shown("err_metrics") /\ ~pass.aborted
        /\ Len(pass.cleaned) >= 2 =>
              pass.metrics.change.txt # "N/A" /\ pass.metrics.pct.txt # "N/A"

C3_Witness ==
    Done /\ pass.cleanedOk /\ Len(pass.cleaned) = 1 /\ Shown("metric_change")

\* C4 as stated: a page of 15 div.eachStory blocks yields exactly 10 items, and
\* a block without a link (no a, or an a without href) is not in the output.
C4_Original ==
    (Done /\ site.kind = "page") =>
        /\ Len(site.blocks) = 15 => Len(pass.newsRet.items) = 10
        /\ \A i \in 1..Len(site.blocks) :
              ~(site.blocks[i].a /\ site.blocks[i].href) =>
                 \A j \in 1..Len(pass.newsRet.items) :
                    pass.newsRet.items[j].headline # GetTextStrip(site.blocks[i].text)

\* C4 amended: only the first 10 blocks are looked at; the output holds, in page
\* order, one item for each of them that has an h3 and an a with href, so a page
\* of 15 blocks yields exactly 10 items when its first 10 blocks are complete,
\* and a block without a link is not in the output nor replaced by a later one.
C4_FirstTenThenSkip ==
    (Done /\ site.kind = "page") =>
        LET blocks == site.blocks
            items == pass.newsRet.items
            head == {i \in 1..Len(blocks) : i <= StoryLimit}
            good == {i \in head : blocks[i].h3 /\ blocks[i].a /\ blocks[i].href}
            rank(i) == Cardinality({j \in good : j <= i})
        IN /\ Len(items) = Cardinality(good)
           /\ \A i \in good :
                 /\ items[rank(i)].headline = blocks[i].text.core
                 /\ items[rank(i)].link = BaseUrl \o blocks[i].url
           /\ (Len(blocks) = 15 /\ good = 1..StoryLimit) => Len(items) = 10
           /\ \A i \in 1..Len(blocks) :
                 ~(blocks[i].a /\ blocks[i].href) =>
                    \A j \in 1..Len(items) : items[j].headline # blocks[i].text.core

\* 15 blocks, one of the first 10 without a link: 9 items
C4_Witness ==
    /\ Done /\ site.kind = "page" /\ Len(site.blocks) = 15
    /\ \E i \in 1..StoryLimit : ~site.blocks[i].a
    /\ Len(pass.newsRet.items) = 9

\* C5 as stated: the list scrape_market_news returns has at most 10 items, each
\* with a non-empty headline and a non-empty link.
C5_ItemsNonEmpty ==
    Done =>
        /\ Len(pass.newsRet.items) <= 10
        /\ \A j \in 1..Len(pass.newsRet.items) :
              /\ pass.newsRet.items[j].headline # ""
              /\ pass.newsRet.items[j].link # ""

\* C6: when the provider call fails, get_stock_data returns None, the fetch
\* error is displayed, the pass is not aborted and shows "Could not retrieve
\* data" and no metric, chart or table; an empty provider result gives the same
\* with the no-data warning in place of the fetch error.
C6_FetchFailureContained ==
    (Done /\ pass.fetchCalled /\ (feed.kind = "raise" \/ feed.rows = <<>>)) =>
        /\ pass.fetchRet = None
        /\ ~pass.aborted /\ ~Shown("exception")
        /\ IF feed.kind = "raise"
           THEN TimesShown("err_fetch") = 1 /\ ~Shown("warn_no_data")
           ELSE TimesShown("warn_no_data") = 1 /\ ~Shown("err_fetch")
        /\ TimesShown("err_could_not_retrieve") = 1
        /\ ShowsNoMainOutput

C6_Witness == Done /\ pass.fetchCalled /\ feed.kind = "raise" /\ Shown("err_fetch")

\* C7: when the news request or the parse fails, scrape_market_news returns the
\* empty list after a single request, nothing propagates, the sidebar shows the
\* news warning, and the pass goes on to the main column: the fetch when the
\* button was pressed with a non-empty ticker, the prompt otherwise.  Every pass
\* calls the scraper, so its memo is filled after any pass.
C7_ScrapeFailsClosed ==
    Done =>
        /\ newsCache.k = "entry" /\ Len(newsCalls) = 1
        /\ site.kind # "page" =>
              /\ pass.newsRet.items = <<>>
              /\ ~pass.aborted /\ ~Shown("exception")
              /\ TimesShown("warn_news_unavailable") = 1 /\ ~Shown("news_items")
              /\ IF pass.button /\ pass.ticker # ""
                 THEN pass.fetchCalled
                 ELSE ~pass.fetchCalled /\ Shown("info_prompt")

C7_Witness ==
    /\ Done /\ site.kind = "bad_content" /\ pass.button /\ pass.fetchCalled
    /\ Shown("warn_news_unavailable")

\* C8: with at least 2 cleaned rows, last price is the last Close, change is
\* last Close minus the Close before it, percent change is change / previous
\* Close x 100 to two decimals, period high is the largest High and period low
\* the smallest Low; closes 100, 105, 95 give 95.00, -10.00 and -9.52.
C8_Metrics ==
    (Done /\ pass.cleanedOk /\ Len(pass.cleaned) >= 2) =>
        LET c == pass.cleaned
            n == Len(c)
            last == c[n].Close
            prev == c[n - 1].Close
            m == pass.metrics
            highs == {c[i].High.v : i \in {k \in 1..n : c[k].High.k = "num"}}
            lows == {c[i].Low.v : i \in {k \in 1..n : c[k].Low.k = "num"}}
        IN /\ ~pass.metricsErr
           /\ last.k = "num" => m.last = [txt |-> "num", c |-> 100 * last.v]
           /\ (last.k = "num" /\ prev.k = "num") =>
                 /\ m.change = [txt |-> "num", c |-> 100 * (last.v - prev.v)]
                 /\ prev.v # 0 =>
                       /\ m.pct.txt = "num"
                       /\ 2 * Abs(m.pct.c * prev.v - 10000 * (last.v - prev.v))
                             <= Abs(prev.v)
           /\ highs # {} =>
                 /\ m.high.txt = "num"
                 /\ \E h \in highs : m.high.c = 100 * h
                 /\ \A h \in highs : 100 * h <= m.high.c
           /\ lows # {} =>
                 /\ m.low.txt = "num"
                 /\ \E l \in lows : m.low.c = 100 * l
                 /\ \A l \in lows : 100 * l >= m.low.c
           /\ Column(c, "Close") = <<Num(100), Num(105), Num(95)>> =>
                 m.last.c = 9500 /\ m.change.c = -1000 /\ m.pct.c = -952

C8_Witness ==
    /\ Done /\ pass.cleanedOk
    /\ Column(pass.cleaned, "Close") = <<Num(100), Num(105), Num(95)>>
    /\ pass.metrics.pct.c = -952 /\ pass.metrics.high.c = 12000
    /\ pass.metrics.low.c = 8000

\* C9 as stated: a pass that fetched a non-empty table is never aborted; when
\* the metrics block fails it shows one error and still renders both charts and
\* the table.
C9_NoFailureFatal ==
    (Done /\ pass.fetchCalled) =>
        /\ ~pass.aborted
        /\ pass.metricsErr =>
              /\ TimesShown("err_metrics") = 1
              /\ Shown("candlestick") /\ Shown("volume_chart") /\ Shown("table")

\* C10: once an execution of get_stock_data for a key returned None, every call
\* for that key less than ttl seconds later returns None without a provider
\* call and the pass shows "Could not retrieve data"; once an execution of
\* scrape_market_news returned the empty list, every call less than ttl seconds
\* later returns the empty list without a request.
C10_FailuresMemoized ==
    /\ (Done /\ pass.fetchCalled) =>
          LET log == stockCalls[pass.key]
          IN \A i \in 1..Len(log) :
                (log[i].ret.k = "None" /\ pass.t - log[i].t < ttl) =>
                    /\ pass.fetchRet = None
                    /\ Shown("err_could_not_retrieve")
                    /\ pass.fetchExecuted => i = Len(log)
    /\ Done =>
          \A i \in 1..Len(newsCalls) :
             (newsCalls[i].ret.items = <<>> /\ pass.t - newsCalls[i].t < ttl) =>
                 /\ pass.newsRet.items = <<>>
                 /\ Shown("warn_news_unavailable")
                 /\ pass.newsExecuted => i = Len(newsCalls)

\* a failure served from the memo at a later time
C10_Witness ==
    /\ Done /\ pass.fetchCalled /\ ~pass.fetchExecuted
    /\ pass.fetchRet = None /\ Shown("err_fetch")
    /\ pass.t > LastOf(stockCalls[pass.key]).t
    /\ ~pass.newsExecuted /\ pass.newsRet.items = <<>>

====
